---- MODULE Spec2Model ----
(***************************************************************************)
(* Verification model of voice-retro-bot: the conversation engine          *)
(* (services/conversation_manager.py over the conversation and retro       *)
(* repositories), the voice pipeline (services/voice_processor.py,         *)
(* services/whisper_service.py, utils/file_manager.py) and the reminder    *)
(* scheduler (services/scheduler_service.py).                              *)
(*                                                                         *)
(* The conversation engine is modelled for one participant and one         *)
(* calendar day, the scheduler for a few participants.  A message text is  *)
(* a sequence of tokens: WS is a run of whitespace, every other token is   *)
(* a word (a maximal run of word characters).                              *)
(***************************************************************************)
EXTENDS Integers, Sequences, FiniteSets, TLC

VARIABLES now, conv, retro, task, hist, reply, vp, files, elapsed,
          sched, clock, reminders, todos, starting, rows, tracker

vars == <<now, conv, retro, task, hist, reply, vp, files, elapsed,
          sched, clock, reminders, todos, starting, rows, tracker>>
convVars == <<now, conv, retro, task, hist, reply>>
voiceVars == <<vp, files, elapsed, tracker>>
schedVars == <<sched, clock, reminders, todos>>
startVars == <<starting, rows>>

(***************************************************************************)
(* Bounds of the model.                                                    *)
(***************************************************************************)
MaxTime == 31
MaxTasks == 2
MaxRuns == 2
MaxReminders == 2

Tasks == 1..MaxTasks

(***************************************************************************)
(* Values.                                                                 *)
(***************************************************************************)
\* Python None for a nullable text column, distinct from the empty text << >>.
None == <<"None">>
\* Python None for the nullable expires_at / completed_at columns.
NoTime == -1
\* Python None for the nullable current_retro_id / energy_level columns.
NoId == 0
\* The one retro row of the modelled day (autoincrement primary key).
RetroId == 1
\* timeout_minutes passed by start_retro_conversation.
TimeoutMinutes == 30

WS == " "

\* RetroStep, in declaration order.
RetroStep == {"idle", "energy", "mood", "mood_explanation", "wins", "learnings",
              "next_actions", "mits", "experiment", "review", "completed"}

\* ConversationManager.step_order
step_order == <<"energy", "mood", "wins", "learnings", "next_actions", "mits",
                "experiment", "review", "completed">>

\* ConversationManager.step_questions: the steps that have a configuration,
\* i.e. a field_type.
step_questions_with_review ==
  {"energy", "mood", "wins", "learnings", "next_actions", "mits", "experiment",
   "review"}

step_questions == {"energy", "mood", "wins", "learnings", "next_actions", "mits",
                   "experiment"}

\* step_questions[step].get("optional")
optional(step) == step = "experiment"

\* The literal text the skip_step callback submits ("propustit'" in Russian).
SkipText == <<"propustit">>

\* Message texts the participant can send: a blank message and an answer.
Inputs == { <<WS>>, <<WS, "4", WS, "horosho">> }

\* Answers with and without a standalone digit 1..5.
FlowInputs == { <<WS, "4", WS, "horosho">>, <<"ploho">> }


(***************************************************************************)
(* Pure functions.                                                         *)
(***************************************************************************)
RECURSIVE lstrip(_)
lstrip(s) == IF s # << >> /\ Head(s) = WS THEN lstrip(Tail(s)) ELSE s

RECURSIVE rstrip(_)
rstrip(s) == IF s # << >> /\ s[Len(s)] = WS THEN rstrip(SubSeq(s, 1, Len(s) - 1)) ELSE s

\* str.strip()
strip(s) == rstrip(lstrip(s))

DigitValue == [d \in {"1", "2", "3", "4", "5"} |->
                 CASE d = "1" -> 1 [] d = "2" -> 2 [] d = "3" -> 3
                   [] d = "4" -> 4 [] d = "5" -> 5]

\* re.findall(r'\b([1-5])\b', text): the words that are one digit 1..5.
EnergyMatches(text) == SelectSeq(text, LAMBDA w : w \in DOMAIN DigitValue)

extract_energy_level_default(text) ==
  IF EnergyMatches(text) # << >> THEN DigitValue[EnergyMatches(text)[1]] ELSE 3

\* ConversationManager._extract_energy_level
extract_energy_level(text) ==
  IF EnergyMatches(text) # << >> THEN DigitValue[EnergyMatches(text)[1]] ELSE NoId

PositiveWords == {"horosho", "otlichno", "prekrasno", "pozitivno"}
NegativeWords == {"ploho", "grustno", "uzhasno"}
NeutralWords == {"normalno", "sredne", "neploho"}
Emojis == {"emoji_smile", "emoji_cry", "emoji_neutral"}

HasWord(text, words) == \E i \in 1..Len(text) : text[i] \in words

extract_mood_emoji(text) ==
  LET emojis == SelectSeq(text, LAMBDA w : w \in Emojis) IN
  IF emojis # << >> THEN <<emojis[1]>>
  ELSE IF HasWord(text, PositiveWords) THEN <<"emoji_smile">>
  ELSE IF HasWord(text, NegativeWords) THEN <<"emoji_cry">>
  ELSE IF HasWord(text, NeutralWords) THEN <<"emoji_neutral">>
  ELSE <<"emoji_smile">>

IndexOf(seq, x) == CHOOSE i \in 1..Len(seq) : seq[i] = x

\* ConversationManager._get_next_step; NoStep stands for None.
NoStep == "none"
get_next_step(current_step) ==
  IF \E i \in 1..Len(step_order) : step_order[i] = current_step
  THEN IF IndexOf(step_order, current_step) < Len(step_order)
       THEN step_order[IndexOf(step_order, current_step) + 1]
       ELSE NoStep
  ELSE NoStep

\* ConversationState.is_expired
is_expired(c) == IF c.expires_at = NoTime THEN FALSE ELSE now > c.expires_at

is_active_no_expiry(c) ==
  c.current_step # "idle" /\ c.current_step # "completed"

\* ConversationState.is_active
is_active(c) ==
  c.current_step # "idle" /\ c.current_step # "completed" /\ ~is_expired(c)

(***************************************************************************)
(* State.                                                                  *)
(***************************************************************************)
\* No conversation_states row for the participant.
NoConv == [exists |-> FALSE, current_step |-> "idle", current_retro_id |-> NoId,
           temp_data |-> {}, last_message_id |-> NoId, expires_at |-> NoTime]

\* No retros row for the participant and the day.
NoRetro == [exists |-> FALSE, id |-> NoId, energy_level |-> NoId, mood |-> None,
            mood_explanation |-> None, wins_text |-> None, learnings_text |-> None,
            next_actions_text |-> None, mits_text |-> None, experiment_text |-> None,
            completed_at |-> NoTime]

\* An interaction slot with no handler running.
IdleTask == [pc |-> "idle", kind |-> "none", voice |-> FALSE, step |-> "idle",
             retro_id |-> NoId, input |-> << >>, wrote |-> FALSE,
             advanced |-> FALSE, overlap |-> FALSE, ret |-> FALSE, notice |-> "none"]

\* History of the conversation since its last fresh start: whether it ran one
\* interaction at a time without stop, expiry, cleanup or failed delivery, the
\* accepted submissions counted in it, the steps skipped in it, and the step at
\* which it was completed.
\* restarted_at is the number of steps the conversation had advanced when
\* the process was last restarted between two of its interactions.
NoRestart == -1
NoHist == [clean |-> FALSE, accepted |-> 0, skips |-> {}, final |-> "none",
           restarted_at |-> NoRestart]

\* What the latest handler answered if it was a start or a stop: the step
\* whose question it sent ("none" if it sent no question) and the state it
\* met ("stopped" for a stop that reset the conversation).  Any other handler
\* leaves NoReply.
NoReply == [prompt |-> "none", found |-> "none"]

\* The history once the conversation is no longer a clean run.
Dirty(h) == [NoHist EXCEPT !.final = h.final]

\* A VoiceProcessingResult with nothing set.
NoResult == [success |-> FALSE, transcribed_text |-> << >>, error |-> "none",
             error_message |-> << >>, quality_valid |-> FALSE, fallback_used |-> FALSE, auto_detected |-> FALSE]

\* No pipeline run yet.
IdleRun == [pc |-> "idle", run |-> 0, language |-> "ru", progress |-> FALSE,
            validated |-> "none", duration |-> 0, events |-> << >>, tier |-> "none", attempt |-> 0,
            calls |-> << >>, raised |-> "none", transcoders |-> {},
            result |-> NoResult]

(***************************************************************************)
(* Scheduler: values and state (services/scheduler_service.py).  The clock *)
(* of the scheduler is the local minute of the day; the minutes far from   *)
(* the daily target, where no tick matches, are passed over in one step.   *)
(***************************************************************************)
MinutesPerHour == 60
daily_reminder_time == 8 * MinutesPerHour
Tolerance == 1
WindowStart == daily_reminder_time - Tolerance - 1
WindowEnd == daily_reminder_time + Tolerance + 1

\* TodoService.get_users_with_todos: the participants that have a todo
\* record, in the order the query returns them.
user_ids == <<1, 2, 3>>
Users == {user_ids[i] : i \in DOMAIN user_ids}

\* The participant of the conversation engine.  todos is the set of the
\* participants that have a row in the todos table: the rows the database
\* holds when the process starts are those of Users.  A row is written by
\* TodoRepository.create_or_update_todo alone, which
\* TodoService.generate_todos_from_retro alone calls.
Participant == Len(user_ids) + 1

\* The live _scheduler_loop tasks, counted by their position: about to run
\* the tick logic, in the 60 s sleep, or in the 30 s backoff of the handler.
NoLoops == [tick |-> 0, sleep |-> 0, backoff |-> 0]
LiveLoops(loops) == loops.tick + loops.sleep + loops.backoff

\* Seconds a TelegramProgressTracker waits between two throttled updates.
throttle_seconds == 2

\* Seconds of the tracker's clock that are followed.
MaxTrackerTime == 5

\* ProcessingStep
ProcessingStep == {"downloading", "validating", "converting", "transcribing",
                   "completed", "failed"}

\* ProgressTracker.__init__: no state and no update yet.  now is the clock
\* the tracker reads; last is the latest call and whether it reached the
\* callback, seq flips at every call; prev_plain is the time of the latest
\* throttled update that reached the callback since the latest update that
\* is delivered whatever the time.
NewTracker ==
  [now |-> 0, current_state |-> "none", last_update_time |-> NoTime, seq |-> 0,
   last |-> [kind |-> "none", step |-> "none", delivered |-> FALSE],
   prev_plain |-> NoTime]

\* A slot in which no start handler runs; saw_state is what
\* create_or_update_state read.
NoStart == [pc |-> "idle", saw_state |-> FALSE, ret |-> "none"]

\* The tables as concurrent start handlers see them: the number of retros
\* rows of the participant for today, the number of conversation_states rows
\* of the participant and the step of that row.  The participant's users
\* row exists.
NoRows == [retros |-> 0, states |-> 0, step |-> "idle"]

\* sched.broadcasts holds the _send_daily_reminders tasks in flight; the one
\* with current = TRUE is the task self._daily_task refers to.
\* lifecycle is the position of main.py, which starts the service once and
\* stops it once.  last_tick and restarted record what the loop did last: whether its latest
\* tick spawned a broadcast, matched but found one in flight ("busy"), did
\* not match, or raised, and whether the loop was restarted after an error.
\* stopped_in records what stop() found running: a broadcast task, a loop in
\* its error backoff.
InitSched ==
  [running |-> FALSE, loops |-> NoLoops, daily_task |-> "None",
   broadcasts |-> {}, daily_sent_users |-> {},
   last_tick |-> "none", restarted |-> FALSE, lifecycle |-> "created",
   stopped_in |-> [broadcast |-> FALSE, backoff |-> FALSE]]

Init ==
  /\ now = 0
  /\ conv = NoConv
  /\ retro = NoRetro
  /\ task = [t \in Tasks |-> IdleTask]
  /\ hist = NoHist
  /\ reply = NoReply
  /\ vp = IdleRun
  /\ files = {}
  /\ elapsed = 0
  /\ sched = InitSched
  /\ clock = [minute |-> WindowStart, backoff_ended |-> FALSE]
  /\ reminders = [u \in Users |-> 0]
  /\ todos = Users
  /\ starting = [t \in Tasks |-> NoStart]
  /\ rows = NoRows
  /\ tracker = NewTracker

InFlight(t) == task[t].pc \in {"process", "confirm", "advance"}

(***************************************************************************)
(* Repositories.                                                           *)
(***************************************************************************)
\* BaseRepository.update on conversation_states: UPDATE ... WHERE user_id = :id,
\* with no condition on the row's current values; no row, no effect.
update_conv(c, fields) ==
  IF c.exists THEN [k \in DOMAIN c |-> IF k \in DOMAIN fields THEN fields[k] ELSE c[k]]
  ELSE c

\* BaseRepository.update on retros: UPDATE ... WHERE id = :retro_id.
update_retro(r, retro_id, fields) ==
  IF r.exists /\ r.id = retro_id
  THEN [k \in DOMAIN r |-> IF k \in DOMAIN fields THEN fields[k] ELSE r[k]]
  ELSE r

\* ConversationRepository.update_step
update_step(c, step) == update_conv(c, [current_step |-> step])

reset_conversation_keep_step(c) ==
  update_conv(c, [current_retro_id |-> NoId, temp_data |-> {},
                  last_message_id |-> NoId, expires_at |-> NoTime])

\* ConversationRepository.reset_conversation
reset_conversation(c) ==
  update_conv(c, [current_step |-> "idle", current_retro_id |-> NoId, temp_data |-> {},
                  last_message_id |-> NoId, expires_at |-> NoTime])

create_or_update_state_keep_expiry(c, step, retro_id, timeout_minutes) ==
  IF c.exists
  THEN update_conv(c, [current_step |-> step, current_retro_id |-> retro_id])
  ELSE [exists |-> TRUE, current_step |-> step, current_retro_id |-> retro_id,
        temp_data |-> {}, last_message_id |-> NoId,
        expires_at |-> now + timeout_minutes]

\* ConversationRepository.create_or_update_state(step, retro_id, timeout_minutes)
create_or_update_state(c, step, retro_id, timeout_minutes) ==
  IF c.exists
  THEN update_conv(c, [current_step |-> step, expires_at |-> now + timeout_minutes,
                       current_retro_id |-> retro_id])
  ELSE [exists |-> TRUE, current_step |-> step, current_retro_id |-> retro_id,
        temp_data |-> {}, last_message_id |-> NoId,
        expires_at |-> now + timeout_minutes]

create_daily_retro_new(r) == [NoRetro EXCEPT !.exists = TRUE, !.id = RetroId]

\* RetroRepository.create_daily_retro
create_daily_retro(r) ==
  IF r.exists THEN r ELSE [NoRetro EXCEPT !.exists = TRUE, !.id = RetroId]

\* RetroRepository.complete_retro
complete_retro(r, retro_id) == update_retro(r, retro_id, [completed_at |-> now])

\* ConversationManager._save_raw_text
save_raw_text(r, retro_id, field_type, user_text) ==
  CASE field_type = "energy" ->
         update_retro(update_retro(r, retro_id,
                        [energy_level |-> extract_energy_level(user_text)]),
                      retro_id, [mood_explanation |-> user_text])
    [] field_type = "mood" ->
         update_retro(update_retro(r, retro_id, [mood |-> extract_mood_emoji(user_text)]),
                      retro_id, [mood_explanation |-> user_text])
    [] field_type = "wins" -> update_retro(r, retro_id, [wins_text |-> user_text])
    [] field_type = "learnings" -> update_retro(r, retro_id, [learnings_text |-> user_text])
    [] field_type = "next_actions" ->
         update_retro(r, retro_id, [next_actions_text |-> user_text])
    [] field_type = "mits" -> update_retro(r, retro_id, [mits_text |-> user_text])
    [] field_type = "experiment" ->
         update_retro(r, retro_id, [experiment_text |-> user_text])
    [] OTHER -> r

\* The columns _save_raw_text writes for a step.
step_fields(step) ==
  CASE step = "energy" -> {"energy_level", "mood_explanation"}
    [] step = "mood" -> {"mood", "mood_explanation"}
    [] step = "wins" -> {"wins_text"}
    [] step = "learnings" -> {"learnings_text"}
    [] step = "next_actions" -> {"next_actions_text"}
    [] step = "mits" -> {"mits_text"}
    [] step = "experiment" -> {"experiment_text"}
    [] OTHER -> {}

(***************************************************************************)
(* Operations of the conversation engine.                                  *)
(***************************************************************************)
\* The wall clock advances to the conversation's deadline (d = 0) or past it
\* (d = 1); the instants in between change the outcome of no comparison.
Tick(d) ==
  /\ conv.expires_at # NoTime
  /\ now < conv.expires_at + d
  /\ conv.expires_at + d <= MaxTime
  /\ now' = conv.expires_at + d
  /\ UNCHANGED <<conv, retro, task, hist, reply, voiceVars, schedVars, startVars>>

\* ConversationManager.start_retro_conversation (/retro, the start_retro button)
start_case_fresh(c, r) == "fresh"

\* The branch start_retro_conversation takes.
start_case(c, r) ==
  IF c.exists /\ is_active(c) THEN "active"
  ELSE IF r.exists /\ r.completed_at # NoTime THEN "completed"
  ELSE "fresh"

\* The state a start meets, as the transition table names it.
found_state(c) ==
  IF ~c.exists THEN "absent"
  ELSE IF is_active(c) THEN "active"
  ELSE IF c.current_step \in {"idle", "completed"} THEN c.current_step
  ELSE "expired"

\* late: the clock passes the deadline between the is_active read of the
\* handler and the one of _continue_conversation, which then sends nothing.
start_retro_conversation(late) ==
  /\ late => /\ conv.exists /\ is_active(conv)
             /\ now = conv.expires_at /\ now < MaxTime
  /\ now' = IF late THEN now + 1 ELSE now
  /\ LET case == start_case(conv, retro)
     IN IF case = "active"
        THEN \* "already active", then _continue_conversation
             /\ reply' = [prompt |-> IF late THEN "none" ELSE conv.current_step,
                          found |-> "active"]
             /\ UNCHANGED <<conv, retro, hist>>
        ELSE IF case = "completed"
        THEN \* "already completed today"
             /\ reply' = [prompt |-> "none", found |-> "completed_today"]
             /\ UNCHANGED <<conv, retro, hist>>
        ELSE /\ retro' = create_daily_retro(retro)
             /\ conv' = create_or_update_state(conv, "energy", retro'.id,
                                               TimeoutMinutes)
             /\ hist' = [clean |-> \A t \in Tasks : ~InFlight(t),
                         accepted |-> 0, skips |-> {}, final |-> "none",
                         restarted_at |-> NoRestart]
             /\ reply' = [prompt |-> "energy", found |-> found_state(conv)]
  /\ UNCHANGED <<task, voiceVars, schedVars, startVars>>

\* ConversationManager.stop_conversation (/stop)
stop_conversation ==
  /\ IF ~conv.exists \/ ~is_active(conv)
     THEN /\ reply' = NoReply
          /\ UNCHANGED <<conv, hist>>
     ELSE /\ conv' = reset_conversation(conv)
          /\ hist' = Dirty(hist)
          /\ reply' = [prompt |-> "none", found |-> "stopped"]
  /\ UNCHANGED <<now, retro, task, voiceVars, schedVars, startVars>>

\* ConversationManager._complete_retro, as the complete_retro button calls it.
\* The button is part of every review message and stays in the chat, so the
\* message of an earlier retro can be pressed whatever the state is now.
complete_retro_callback ==
  /\ IF ~conv.exists
     THEN UNCHANGED <<conv, retro, hist>>
     ELSE /\ retro' = complete_retro(retro, conv.current_retro_id)
          /\ conv' = reset_conversation(conv)
          /\ hist' = IF hist.clean /\ \A t \in Tasks : ~InFlight(t)
                     THEN [hist EXCEPT !.final = conv.current_step]
                     ELSE [NoHist EXCEPT !.final = conv.current_step]
  /\ UNCHANGED <<now, task, voiceVars, schedVars, startVars>>
  /\ reply' = NoReply

delete_expired_inclusive(c) ==
  IF c.exists /\ c.expires_at # NoTime /\ c.expires_at <= now THEN NoConv ELSE c

\* The DELETE statement of cleanup_expired_states applied to the
\* participant's row: WHERE expires_at < now.
delete_expired(c) ==
  IF c.exists /\ c.expires_at # NoTime /\ c.expires_at < now THEN NoConv ELSE c

\* ConversationRepository.cleanup_expired_states, run by the session manager:
\* DELETE ... WHERE expires_at < now (a NULL expires_at never matches).
cleanup_expired_states ==
  /\ conv' = delete_expired(conv)
  /\ hist' = IF delete_expired(conv) # conv THEN Dirty(hist) ELSE hist
  /\ UNCHANGED <<now, retro, task, voiceVars, schedVars, startVars>>
  /\ reply' = NoReply

init_database_recreate(c) == NoConv

\* models.database.init_database on a database that exists: create_all adds
\* the tables that are missing and leaves the rows of the others.
init_database(c) == c

\* The process ends and is started again (main.py): the handlers in flight
\* are gone, the rows of the database are what the engine finds.
process_restart ==
  /\ task' = [t \in Tasks |-> IdleTask]
  /\ conv' = init_database(conv)
  /\ hist' = IF \A t \in Tasks : ~InFlight(t)
             THEN [hist EXCEPT !.restarted_at =
                                 hist.accepted + Cardinality(hist.skips)]
             ELSE Dirty(hist)
  /\ UNCHANGED <<now, retro, voiceVars, schedVars, startVars>>
  /\ reply' = NoReply

\* The slot's record once its handler has returned.
Done(t, tk, ret, notice) ==
  [tk EXCEPT !.pc = "done", !.ret = ret, !.notice = notice, !.input = << >>,
             !.retro_id = NoId]

\* ConversationManager.handle_user_response up to its first suspension after
\* the state was read: kind "submit" is a text or voice message, kind "skip"
\* the skip_step button, which submits SkipText as a text message.  is_active
\* and is_expired each read the clock: `late` is the run in which the deadline
\* passes between the two reads.
handle_user_response(t, kind, voice, message, late) ==
  /\ task[t].pc \in {"idle", "done"}
  /\ late => /\ conv.exists /\ is_active(conv)
             /\ now = conv.expires_at /\ now < MaxTime
  /\ LET new == [IdleTask EXCEPT !.kind = kind, !.voice = voice,
                                 !.step = IF conv.exists THEN conv.current_step ELSE "idle"]
         user_input == IF voice THEN message ELSE strip(message)
     IN
     IF ~conv.exists \/ ~is_active(conv)
     THEN /\ task' = [task EXCEPT ![t] = Done(t, new, FALSE, "no_active")]
          /\ UNCHANGED <<conv, hist>>
     ELSE IF late \/ is_expired(conv)
     THEN \* _handle_expired_conversation
          /\ conv' = reset_conversation(conv)
          /\ task' = [task EXCEPT ![t] = Done(t, new, FALSE, "expired")]
          /\ hist' = Dirty(hist)
     ELSE IF voice /\ message = None
     THEN /\ task' = [task EXCEPT ![t] = Done(t, new, FALSE, "voice_failed")]
          /\ UNCHANGED <<conv, hist>>
     ELSE IF user_input = << >>
     THEN /\ task' = [task EXCEPT ![t] =
                        Done(t, new, FALSE, IF voice THEN "none" ELSE "empty")]
          /\ UNCHANGED <<conv, hist>>
     ELSE LET others == {u \in Tasks \ {t} : task[u].pc = "process"} IN
          /\ task' = [u \in Tasks |->
                        IF u = t
                        THEN [new EXCEPT !.pc = "process", !.input = user_input,
                                         !.retro_id = conv.current_retro_id,
                                         !.overlap = others # {}]
                        ELSE IF u \in others THEN [task[u] EXCEPT !.overlap = TRUE]
                        ELSE task[u]]
          /\ hist' = IF \A u \in Tasks \ {t} : ~InFlight(u) THEN hist ELSE Dirty(hist)
          /\ UNCHANGED conv
  /\ now' = IF late THEN now + 1 ELSE now
  /\ UNCHANGED <<retro, voiceVars, schedVars, startVars>>
  /\ reply' = NoReply

\* ConversationManager._process_step_response up to the confirmation message:
\* the answer is written to the retro row and committed.
process_step_response(t) ==
  /\ task[t].pc = "process"
  /\ IF task[t].step \notin step_questions
     THEN /\ task' = [task EXCEPT ![t] = Done(t, task[t], TRUE, "none")]
          /\ UNCHANGED retro
     ELSE /\ retro' = save_raw_text(retro, task[t].retro_id, task[t].step,
                                    strip(task[t].input))
          /\ task' = [task EXCEPT ![t].pc = "confirm", ![t].wrote = TRUE]
  /\ UNCHANGED <<now, conv, hist, voiceVars, schedVars, startVars>>
  /\ reply' = NoReply

\* The "answer saved" message of _process_step_response: send_message_with_retry
\* either delivers or raises after its attempts, and handle_user_response then
\* reports the error and returns False.
send_confirmation(t, delivered) ==
  /\ task[t].pc = "confirm"
  /\ IF delivered
     THEN /\ task' = [task EXCEPT ![t].pc = "advance"]
          /\ UNCHANGED hist
     ELSE /\ task' = [task EXCEPT ![t] = Done(t, task[t], FALSE, "error")]
          /\ hist' = Dirty(hist)
  /\ UNCHANGED <<now, conv, retro, voiceVars, schedVars, startVars>>
  /\ reply' = NoReply

\* ConversationManager._do_advance_step: the step after the one that was read
\* is written, then the next question is asked.
do_advance_step(t, delivered) ==
  /\ task[t].pc = "advance"
  /\ LET next_step == get_next_step(task[t].step) IN
     /\ next_step # NoStep
     /\ conv' = update_step(conv, next_step)
     /\ task' = [task EXCEPT ![t] =
                   [Done(t, task[t], delivered, IF delivered THEN "question" ELSE "error")
                      EXCEPT !.advanced = TRUE]]
     /\ hist' = IF hist.clean /\ delivered
                THEN IF task[t].kind = "skip"
                     THEN [hist EXCEPT !.skips = hist.skips \cup {task[t].step}]
                     ELSE [hist EXCEPT !.accepted = hist.accepted + 1]
                ELSE Dirty(hist)
  /\ UNCHANGED <<now, retro, voiceVars, schedVars, startVars>>
  /\ reply' = NoReply

(***************************************************************************)
(* Voice pipeline: values.                                                 *)
(***************************************************************************)
\* stop_after_attempt(3) on WhisperService.transcribe_audio
MaxAttempts == 3
\* VoiceProcessor.processing_timeout, in seconds
ProcessingTimeout == 120
\* The timeout of one external call, in seconds: WhisperService.timeout and
\* settings.audio_processing_timeout
CallTimeout == 30

\* How long an external call that did not time out can have taken: no time
\* to speak of, or just under its timeout.
CallTimes == {0, CallTimeout - 1}

\* time.time() - start_time after a call that took `took` seconds more; the
\* run's clock is followed up to the first second past ProcessingTimeout.
Elapse(took) ==
  IF elapsed + took > ProcessingTimeout THEN ProcessingTimeout + 1 ELSE elapsed + took
\* validate_transcription: len(text) < 3
MinLength == 3

\* Temporary paths: the downloaded original (telegram_file_context) and the
\* transcoded copy (temp_file_context, prefix "converted_").
OggPath == "voice_retro_.ogg"
Mp3Path == "converted_.mp3"

\* generate_temp_path: the path is unique to the run that generated it.
generate_temp_path(run, name) == [run |-> run, name |-> name]

\* The temporary files of a run.
FilesOf(run) == {f \in files : f.run = run}

\* Characters of a word.
WordLen(w) ==
  CASE w = WS -> 1 [] w = "ok" -> 2 [] w = "ploho" -> 5 [] w = "[inaudible]" -> 11
    [] OTHER -> 4

RECURSIVE CharLen(_)
\* len(text)
CharLen(text) == IF text = << >> THEN 0 ELSE WordLen(Head(text)) + CharLen(Tail(text))

\* Texts the transcription service can answer with.
Transcripts == { << >>, <<WS>>, <<"ok">>, <<"ploho">>, <<"[inaudible]">> }

\* validate_transcription: suspicious_patterns
suspicious_patterns == {".........", "[nerazborchivo]", "[inaudible]", "???"}

\* WhisperService.validate_transcription
validate_transcription(text) ==
  /\ strip(text) # << >>
  /\ ~(CharLen(strip(text)) < MinLength)
  /\ ~HasWord(strip(text), suspicious_patterns)

\* What the retry decorator of transcribe_audio raises once its attempts are
\* used up: tenacity's RetryError (the decorator sets no reraise=True), not
\* the WhisperTranscriptionError the last attempt raised.
retry_exhausted == "RetryError"

\* except WhisperTranscriptionError, in transcribe_with_fallback
fallback_catches(exc) == exc = "WhisperTranscriptionError"

\* fallback_language as process_telegram_voice passes it; NoLanguage is None.
NoLanguage == "none"
fallback_language(language) == IF language # "en" THEN "en" ELSE NoLanguage

\* The class of the except clause of process_telegram_voice that catches exc.
except_class(exc) ==
  IF exc = "TimeoutError" THEN "timeout"
  ELSE IF exc \in {"AudioConversionError", "WhisperTranscriptionError",
                   "VoiceProcessingError"} THEN "processing"
  ELSE "internal"

except_result_no_message(exc, detail) == [NoResult EXCEPT !.error = except_class(exc)]

\* The except clauses of process_telegram_voice: the failed result, whose
\* message is fixed for a timeout and for an unexpected exception, and the
\* pipeline-error prefix followed by str(e) otherwise.
except_result(exc, detail) ==
  [NoResult EXCEPT !.error = except_class(exc),
                   !.error_message =
                     CASE except_class(exc) = "timeout" -> <<"Prevysheno vremya obrabotki">>
                       [] except_class(exc) = "processing" ->
                            <<"Oshibka obrabotki:", detail>>
                       [] OTHER -> <<"Vnutrennyaya oshibka servera">>]

\* TempFileManager.cleanup_file
cleanup_file(fs, path) == fs \ {path}

\* The finally clause of telegram_file_context
telegram_file_context_exit(fs) == cleanup_file(fs, generate_temp_path(vp.run, OggPath))

\* The finally clause of temp_file_context
temp_file_context_exit(fs) == cleanup_file(fs, generate_temp_path(vp.run, Mp3Path))

\* ProgressTracker.update_progress as start_step, complete_step and
\* fail_step call it (force_update): the state the tracker reports, when the
\* run has a tracker.  `sent` tells whether the outbound edit of the progress
\* message went through; its failure is logged and swallowed.
update_progress(events, step, percent, sent) ==
  IF vp.progress
  THEN Append(events, [step |-> step, percent |-> percent, sent |-> sent])
  ELSE events

start_step(events, step, sent) == update_progress(events, step, 0, sent)

complete_step_dropped(events, step, sent) == events

complete_step(events, step, sent) == update_progress(events, step, 100, sent)

fail_step(events, sent) == update_progress(events, "failed", 0, sent)

\* An exception leaves process_telegram_voice's try block: the contexts
\* entered so far run their finally clauses, then the except clause that
\* matches reports the failure and builds the failed result.
RaiseWith(exc, detail, fs, in_ogg, in_mp3, calls, events, sent) ==
  /\ files' = LET a == IF in_mp3 THEN temp_file_context_exit(fs) ELSE fs
              IN IF in_ogg THEN telegram_file_context_exit(a) ELSE a
  /\ vp' = [vp EXCEPT !.pc = "done", !.raised = exc, !.tier = "none", !.attempt = 0,
                      !.validated = IF exc = "VoiceProcessingError" THEN "invalid"
                                    ELSE vp.validated,
                      !.calls = calls, !.events = fail_step(events, sent),
                      !.result = except_result(exc, detail)]

Raise(exc, detail, fs, in_ogg, in_mp3, events, sent) ==
  RaiseWith(exc, detail, fs, in_ogg, in_mp3, vp.calls, events, sent)

(***************************************************************************)
(* Voice pipeline: VoiceProcessor.process_telegram_voice, phase by phase.  *)
(***************************************************************************)
\* A run starts: the tracker is created when a progress message id is
\* given, and the try block is entered.
process_telegram_voice(progress_message_id, language) ==
  /\ vp.pc \in {"idle", "done"}
  /\ vp.run < MaxRuns
  /\ vp' = [IdleRun EXCEPT !.pc = "download", !.run = vp.run + 1,
                           !.language = language,
                           !.progress = progress_message_id # NoId,
                           !.transcoders = vp.transcoders]
  /\ elapsed' = 0
  /\ UNCHANGED <<files, tracker, convVars, schedVars, startVars>>

\* TempFileManager.download_telegram_file inside telegram_file_context
download_telegram_file(outcome, sent) ==
  /\ vp.pc = "download"
  /\ LET started == start_step(vp.events, "downloading", sent)
         temp_path == generate_temp_path(vp.run, OggPath)
     IN
     CASE outcome = "ok" ->
            /\ files' = files \cup {temp_path}
            /\ vp' = [vp EXCEPT !.pc = "validate",
                                !.events = start_step(
                                  complete_step(started, "downloading", sent), "validating", sent)]
       [] outcome = "get_file_failed" ->
            \* bot.get_file raises; temp_path.unlink(missing_ok=True)
            Raise("TelegramError", "get_file failed", cleanup_file(files, temp_path),
                  FALSE, FALSE, started, sent)
       [] outcome = "too_large" ->
            Raise("ValueError", "File too large", cleanup_file(files, temp_path),
                  FALSE, FALSE, started, sent)
       [] outcome = "transfer_failed" ->
            \* download_to_drive raises with the file partly written
            Raise("TelegramError", "download failed",
                  cleanup_file(files \cup {temp_path}, temp_path), FALSE, FALSE, started, sent)
       [] outcome = "size_check_failed" ->
            \* validate_file_size fails on the downloaded file
            Raise("ValueError", "Downloaded file validation failed",
                  cleanup_file(files \cup {temp_path}, temp_path), FALSE, FALSE, started, sent)
  /\ UNCHANGED elapsed
  /\ UNCHANGED <<tracker, convVars, schedVars, startVars>>

validate_audio_file_unchecked(is_valid, duration, sent) ==
  /\ vp.pc = "validate"
  /\ vp' = [vp EXCEPT !.pc = "convert",
                      !.validated = IF is_valid THEN "valid" ELSE "invalid",
                      !.duration = duration,
                      !.events = start_step(
                        complete_step(vp.events, "validating", sent), "converting", sent)]
  /\ UNCHANGED <<files, elapsed, tracker, convVars, schedVars, startVars>>

\* AudioConverter.validate_audio_file, the check of its result (is_valid
\* False raises VoiceProcessingError) and get_audio_duration (None when
\* ffprobe gives no duration)
validate_audio_file(is_valid, duration, sent) ==
  /\ vp.pc = "validate"
  /\ IF is_valid
     THEN /\ vp' = [vp EXCEPT !.pc = "convert", !.validated = "valid",
                              !.duration = duration,
                              !.events = start_step(
                                complete_step(vp.events, "validating", sent), "converting", sent)]
          /\ UNCHANGED files
     ELSE Raise("VoiceProcessingError", "Nedeystvitelnyy audiofayl", files, TRUE, FALSE,
                vp.events, sent)
  /\ UNCHANGED elapsed
  /\ UNCHANGED <<tracker, convVars, schedVars, startVars>>

\* AudioConverter.convert_ogg_to_mp3 inside temp_file_context.  On a timeout
\* of wait_for the subprocess is left running (nothing kills it): it has
\* opened its output by then ("timeout_opened") or not yet ("timeout").
convert_ogg_to_mp3(outcome, sent, took) ==
  /\ vp.pc = "convert"
  /\ LET output_path == generate_temp_path(vp.run, Mp3Path) IN
     CASE outcome = "ok" ->
            /\ files' = files \cup {output_path}
            /\ vp' = [vp EXCEPT !.pc = "transcribe", !.tier = "primary", !.attempt = 1,
                                !.events = start_step(
                                  complete_step(vp.events, "converting", sent), "transcribing", sent)]
       [] outcome = "failed" ->
            \* non-zero exit or missing output
            Raise("AudioConversionError", "FFmpeg failed", files, TRUE, TRUE, vp.events, sent)
       [] outcome = "failed_partial" ->
            \* non-zero exit with the output partly written
            Raise("AudioConversionError", "FFmpeg failed", files \cup {output_path},
                  TRUE, TRUE, vp.events, sent)
       [] outcome \in {"timeout", "timeout_opened"} ->
            /\ files' = telegram_file_context_exit(temp_file_context_exit(
                          IF outcome = "timeout_opened" THEN files \cup {output_path}
                          ELSE files))
            /\ vp' = [vp EXCEPT !.pc = "done", !.raised = "AudioConversionError",
                                !.events = fail_step(vp.events, sent),
                                !.transcoders = vp.transcoders \cup
                                  {[run |-> vp.run, opened |-> outcome = "timeout_opened"]},
                                !.result = except_result("AudioConversionError",
                                                         "Conversion timed out")]
  /\ elapsed' = Elapse(IF outcome \in {"timeout", "timeout_opened"} THEN CallTimeout
                       ELSE took)
  /\ UNCHANGED <<tracker, convVars, schedVars, startVars>>

\* A transcoder subprocess that outlived its run goes on and exits: if it had
\* not opened its output when the run gave up, it creates the output now
\* (ffmpeg -y output_path); an output opened before was unlinked and stays so.
transcoder_exits(p) ==
  /\ p \in vp.transcoders
  /\ vp' = [vp EXCEPT !.transcoders = vp.transcoders \ {p}]
  /\ files' = IF p.opened THEN files
              ELSE files \cup {generate_temp_path(p.run, Mp3Path)}
  /\ UNCHANGED elapsed
  /\ UNCHANGED <<tracker, convVars, schedVars, startVars>>

\* The language of a tier's request ("" asks for auto-detection).
tier_language(tier) ==
  CASE tier = "primary" -> vp.language
    [] tier = "fallback" -> fallback_language(vp.language)
    [] OTHER -> ""

\* The tier transcribe_with_fallback tries after `tier` gave no usable result.
next_tier(tier) ==
  IF tier = "primary" /\ fallback_language(vp.language) # NoLanguage THEN "fallback"
  ELSE IF tier \in {"primary", "fallback"} THEN "auto"
  ELSE "none"

\* One finished call of transcribe_audio, retries included.
Call(tier, text) == [tier |-> tier, language |-> tier_language(tier), text |-> text]

\* The run returns its successful result: both contexts are left.
Succeed(text, tier, sent) ==
  /\ files' = telegram_file_context_exit(temp_file_context_exit(files))
  /\ vp' = [vp EXCEPT !.pc = "done", !.tier = "none", !.attempt = 0,
                      !.calls = Append(vp.calls, Call(tier, text)),
                      !.events = complete_step(
                        complete_step(vp.events, "transcribing", sent), "completed", sent),
                      !.result = [success |-> TRUE, transcribed_text |-> text,
                                  error |-> "none", error_message |-> << >>,
                                  quality_valid |-> validate_transcription(text),
                                  fallback_used |-> tier = "fallback",
                                  auto_detected |-> tier = "auto"]]

\* One attempt of WhisperService.transcribe_audio for the current tier of
\* transcribe_with_fallback: the request fails (error or timeout) or answers
\* with a text.
Failed == <<"failed">>
transcribe_audio(outcome, sent, took) ==
  /\ vp.pc = "transcribe"
  /\ IF outcome = Failed
     THEN IF vp.attempt < MaxAttempts
          THEN \* the decorator waits and calls again
               /\ vp' = [vp EXCEPT !.attempt = vp.attempt + 1]
               /\ UNCHANGED files
          ELSE LET log == Append(vp.calls, Call(vp.tier, Failed)) IN
               IF fallback_catches(retry_exhausted) /\ next_tier(vp.tier) # "none"
               THEN /\ vp' = [vp EXCEPT !.calls = log, !.tier = next_tier(vp.tier),
                                        !.attempt = 1]
                    /\ UNCHANGED files
               ELSE RaiseWith(retry_exhausted, "RetryError", files, TRUE, TRUE, log, vp.events, sent)
     ELSE IF vp.tier = "primary" /\ strip(outcome) = << >> /\ next_tier(vp.tier) # "none"
          THEN \* primary language gave empty text: next tier
               /\ vp' = [vp EXCEPT !.calls = Append(vp.calls, Call(vp.tier, outcome)),
                                   !.tier = next_tier(vp.tier), !.attempt = 1]
               /\ UNCHANGED files
          ELSE Succeed(outcome, vp.tier, sent)
  /\ elapsed' = Elapse(took)
  /\ UNCHANGED <<tracker, convVars, schedVars, startVars>>

\* Audio durations get_audio_duration can report, NoDuration for None.
NoDuration == 0
Durations == {NoDuration, 2}

NextVoice ==
  \/ \E m \in {NoId, 1}, l \in {"ru", "en"} : process_telegram_voice(m, l)
  \/ \E o \in {"ok", "get_file_failed", "too_large", "transfer_failed",
               "size_check_failed"}, sent \in BOOLEAN : download_telegram_file(o, sent)
  \/ \E v \in BOOLEAN, d \in Durations, sent \in BOOLEAN : validate_audio_file(v, d, sent)
  \/ \E o \in {"ok", "failed", "failed_partial", "timeout", "timeout_opened"},
        sent \in BOOLEAN, took \in CallTimes : convert_ogg_to_mp3(o, sent, took)
  \/ \E r \in 1..MaxRuns, o \in BOOLEAN : transcoder_exits([run |-> r, opened |-> o])
  \/ \E o \in Transcripts \cup {Failed}, sent \in BOOLEAN, took \in CallTimes :
       transcribe_audio(o, sent, took)

SpecVoice == Init /\ [][NextVoice]_vars

\* One interaction at a time: every handler of the engine, one slot.
Next ==
  \/ \E d \in {0, 1} : Tick(d)
  \/ \E late \in BOOLEAN : start_retro_conversation(late)
  \/ stop_conversation
  \/ complete_retro_callback
  \/ cleanup_expired_states
  \/ \E m \in Inputs, late \in BOOLEAN : handle_user_response(1, "submit", FALSE, m, late)
  \/ process_step_response(1)
  \/ \E d \in BOOLEAN : send_confirmation(1, d)
  \/ \E d \in BOOLEAN : do_advance_step(1, d)

Spec == Init /\ [][Next]_vars

\* One conversation from start to completion: answers with and without a
\* digit, the skip button at any step, the confirmation of the review.
NextFlow ==
  \/ \E late \in BOOLEAN : start_retro_conversation(late)
  \/ complete_retro_callback
  \/ \E m \in FlowInputs : handle_user_response(1, "submit", FALSE, m, FALSE)
  \/ handle_user_response(1, "skip", FALSE, SkipText, FALSE)
  \/ process_step_response(1)
  \/ \E d \in BOOLEAN : send_confirmation(1, d)
  \/ \E d \in BOOLEAN : do_advance_step(1, d)

SpecFlow == Init /\ [][NextFlow]_vars

\* Interactions of the same participant that overlap: every slot runs the
\* submit handler, suspended at its awaits.
NextConc ==
  \/ \E late \in BOOLEAN : start_retro_conversation(late)
  \/ \E t \in Tasks :
       \/ handle_user_response(t, "submit", FALSE, <<WS, "4", WS, "horosho">>, FALSE)
       \/ process_step_response(t)
       \/ \E d \in BOOLEAN : send_confirmation(t, d)
       \/ \E d \in BOOLEAN : do_advance_step(t, d)

SpecConc == Init /\ [][NextConc]_vars

\* One conversation, one interaction at a time, with restarts of the process
\* and the passing of the deadline.
NextRestart ==
  \/ \E d \in {0, 1} : Tick(d)
  \/ \E late \in BOOLEAN : start_retro_conversation(late)
  \/ process_restart
  \/ \E m \in Inputs, late \in BOOLEAN :
       handle_user_response(1, "submit", FALSE, m, late)
  \/ process_step_response(1)
  \/ \E d \in BOOLEAN : send_confirmation(1, d)
  \/ \E d \in BOOLEAN : do_advance_step(1, d)

SpecRestart == Init /\ [][NextRestart]_vars

\* What _process_voice_input hands to handle_user_response: None when the
\* run failed, else the transcribed text of the successful result as the
\* service gave it: an empty text, a blank one, or words.
VoiceInputs == {None, << >>, <<WS>>, <<"ploho">>}

\* One conversation, one interaction at a time, answered by text and by
\* voice messages.
NextInput ==
  \/ \E late \in BOOLEAN : start_retro_conversation(late)
  \/ \E m \in Inputs : handle_user_response(1, "submit", FALSE, m, FALSE)
  \/ \E m \in VoiceInputs : handle_user_response(1, "submit", TRUE, m, FALSE)
  \/ process_step_response(1)
  \/ \E d \in BOOLEAN : send_confirmation(1, d)
  \/ \E d \in BOOLEAN : do_advance_step(1, d)

SpecInput == Init /\ [][NextInput]_vars

(***************************************************************************)
(* Progress reporter: utils/progress_tracker.py.  The callback of           *)
(* TelegramProgressTracker catches the failure of its own message edit, so  *)
(* a call of the callback always returns.                                   *)
(***************************************************************************)
should_update_always(tr, step, force_update) == TRUE

\* update_progress: should_update
should_update(tr, step, force_update) ==
  \/ force_update
  \/ tr.last_update_time = NoTime
  \/ tr.now - tr.last_update_time >= throttle_seconds
  \/ step \in {"completed", "failed"}

\* ProgressTracker.update_progress under the tracker's lock: the state is
\* replaced, and the callback is called and the time recorded when
\* should_update says so.
tracker_update(tr, kind, step, force_update) ==
  LET deliver == should_update(tr, step, force_update)
      whatever == force_update \/ step \in {"completed", "failed"}
  IN [tr EXCEPT !.current_state = step,
                !.last_update_time = IF deliver THEN tr.now ELSE @,
                !.seq = 1 - @,
                !.last = [kind |-> kind, step |-> step, delivered |-> deliver],
                !.prev_plain = IF ~deliver THEN @
                               ELSE IF whatever THEN NoTime ELSE tr.now]

TrackerFrame == UNCHANGED <<vp, files, elapsed, convVars, schedVars, startVars>>

\* The tracker's clock advances by a second.
tracker_clock ==
  /\ tracker.now < MaxTrackerTime
  /\ tracker' = [tracker EXCEPT !.now = @ + 1]
  /\ TrackerFrame

\* ProgressTracker.start_step
tracker_start_step(step) ==
  /\ tracker' = tracker_update(tracker, "start_step", step, TRUE)
  /\ TrackerFrame

\* ProgressTracker.complete_step
tracker_complete_step(step) ==
  /\ tracker' = tracker_update(tracker, "complete_step", step, TRUE)
  /\ TrackerFrame

\* ProgressTracker.fail_step
tracker_fail_step ==
  /\ tracker' = tracker_update(tracker, "fail_step", "failed", TRUE)
  /\ TrackerFrame

\* ProgressTracker.update_progress called without force_update
tracker_update_progress(step) ==
  /\ tracker' = tracker_update(tracker, "update_progress", step, FALSE)
  /\ TrackerFrame

NextTracker ==
  \/ tracker_clock
  \/ \E step \in ProcessingStep \ {"failed"} : tracker_start_step(step)
  \/ \E step \in ProcessingStep \ {"failed"} : tracker_complete_step(step)
  \/ tracker_fail_step
  \/ \E step \in ProcessingStep : tracker_update_progress(step)

SpecTracker == Init /\ [][NextTracker]_vars

(***************************************************************************)
(* Start handlers of one participant that overlap: each await of           *)
(* start_retro_conversation is a point where the other handler runs.       *)
(* BaseRepository.create and update commit at once.                        *)
(***************************************************************************)
\* The start handler of slot t returns.
StartDone(t, ret) == [starting EXCEPT ![t] = [NoStart EXCEPT !.pc = "done", !.ret = ret]]

\* existing_state = get_by_user_id; an active state is continued.
start_get_state(t) ==
  /\ starting[t].pc \in {"idle", "done"}
  /\ starting' = IF rows.states > 0 /\ rows.step # "idle"
                 THEN StartDone(t, "continued")
                 ELSE [starting EXCEPT ![t] = [NoStart EXCEPT !.pc = "get_retro"]]
  /\ UNCHANGED <<rows, convVars, voiceVars, schedVars>>

\* RetroRepository.get_by_user_and_date: scalar_one_or_none raises
\* MultipleResultsFound when more than one row matches.
get_by_user_and_date(t, found, none) ==
  starting' = IF rows.retros > 1 THEN StartDone(t, "failed")
              ELSE IF rows.retros = 1
              THEN [starting EXCEPT ![t].pc = found]
              ELSE [starting EXCEPT ![t].pc = none]

\* existing_retro = get_by_user_and_date(user_id, today)
start_get_retro(t) ==
  /\ starting[t].pc = "get_retro"
  /\ get_by_user_and_date(t, "read_state", "create_check")
  /\ UNCHANGED <<rows, convVars, voiceVars, schedVars>>

\* RetroRepository.create_daily_retro: the check for an existing row
create_daily_retro_check(t) ==
  /\ starting[t].pc = "create_check"
  /\ get_by_user_and_date(t, "read_state", "create_insert")
  /\ UNCHANGED <<rows, convVars, voiceVars, schedVars>>

\* RetroRepository.create_daily_retro: create(user_id, date); the retros
\* table has no unique constraint on (user_id, date).
create_daily_retro_insert(t) ==
  /\ starting[t].pc = "create_insert"
  /\ rows' = [rows EXCEPT !.retros = rows.retros + 1]
  /\ starting' = [starting EXCEPT ![t].pc = "read_state"]
  /\ UNCHANGED <<convVars, voiceVars, schedVars>>

\* ConversationRepository.create_or_update_state: state = get_by_user_id
create_or_update_state_read(t) ==
  /\ starting[t].pc = "read_state"
  /\ starting' = [starting EXCEPT ![t].pc = "write_state",
                                  ![t].saw_state = rows.states > 0]
  /\ UNCHANGED <<rows, convVars, voiceVars, schedVars>>

\* ConversationRepository.create_or_update_state: update of the row that was
\* read, or create; user_id is the primary key of conversation_states, so a
\* second INSERT raises IntegrityError and the handler reports the failure.
create_or_update_state_write(t) ==
  /\ starting[t].pc = "write_state"
  /\ IF starting[t].saw_state
     THEN /\ rows' = [rows EXCEPT !.step = "energy"]
          /\ starting' = StartDone(t, "started")
     ELSE IF rows.states > 0
     THEN /\ starting' = StartDone(t, "failed")
          /\ UNCHANGED rows
     ELSE /\ rows' = [rows EXCEPT !.states = 1, !.step = "energy"]
          /\ starting' = StartDone(t, "started")
  /\ UNCHANGED <<convVars, voiceVars, schedVars>>

\* stop_conversation between starts: the row of an active conversation is
\* reset to IDLE.
stop_between_starts ==
  /\ rows.states > 0
  /\ rows.step # "idle"
  /\ rows' = [rows EXCEPT !.step = "idle"]
  /\ UNCHANGED <<starting, convVars, voiceVars, schedVars>>

NextStart ==
  \/ stop_between_starts
  \/ \E t \in Tasks :
       \/ start_get_state(t)
       \/ start_get_retro(t)
       \/ create_daily_retro_check(t)
       \/ create_daily_retro_insert(t)
       \/ create_or_update_state_read(t)
       \/ create_or_update_state_write(t)

SpecStart == Init /\ [][NextStart]_vars

(***************************************************************************)
(* Scheduler: SchedulerService.                                            *)
(***************************************************************************)
Abs(n) == IF n < 0 THEN -n ELSE n

should_send_daily_reminder(current_minutes) ==
  Abs(current_minutes - daily_reminder_time) <= Tolerance

daily_task_free_always(s) == TRUE

\* self._daily_task is None or self._daily_task.done()
daily_task_free(s) == s.daily_task = "None" \/ s.daily_task = "done"

NewBroadcast ==
  [current |-> TRUE, pc |-> "start", queue |-> << >>, attempted |-> << >>,
   success_count |-> 0, error_count |-> 0]

\* self._daily_task = asyncio.create_task(self._send_daily_reminders())
spawn(s) ==
  [s EXCEPT !.broadcasts = {[b EXCEPT !.current = FALSE] : b \in @}
                             \cup {NewBroadcast},
            !.daily_task = "pending"]

\* A broadcast task ends: it leaves the tasks in flight, and done() of
\* self._daily_task becomes true if it is the task that field refers to.
finish(s, b) ==
  [s EXCEPT !.broadcasts = @ \ {b},
            !.daily_task = IF b.current THEN "done" ELSE @]

start ==
  /\ sched.lifecycle \in {"created", "started"}
  /\ sched' = IF sched.running THEN sched
              ELSE [sched EXCEPT !.running = TRUE, !.loops.tick = @ + 1,
                                 !.lifecycle = "started"]
  /\ UNCHANGED <<clock, reminders, todos, convVars, voiceVars, startVars>>

stop_keeps_daily_task ==
  /\ sched.lifecycle = "started"
  /\ sched' = [sched EXCEPT
                 !.running = FALSE,
                 !.lifecycle = "stopped",
                 !.loops = NoLoops,
                 !.stopped_in = [broadcast |-> sched.broadcasts # {},
                                 backoff |-> sched.loops.backoff > 0]]
  /\ UNCHANGED <<clock, reminders, todos, convVars, voiceVars, startVars>>

\* SchedulerService.stop: _scheduler_task and _daily_task are cancelled and
\* awaited.
stop ==
  /\ sched.lifecycle = "started"
  /\ LET cur == {b \in sched.broadcasts : b.current}
     IN sched' = [sched EXCEPT
                    !.running = FALSE,
                    !.lifecycle = "stopped",
                    !.loops = NoLoops,
                    !.broadcasts = @ \ cur,
                    !.daily_task = IF @ = "pending" THEN "done" ELSE @,
                    !.stopped_in = [broadcast |-> sched.broadcasts # {},
                                    backoff |-> sched.loops.backoff > 0]]
  /\ UNCHANGED <<clock, reminders, todos, convVars, voiceVars, startVars>>

\* One pass of the while loop up to its sleep.  raised tells where the tick
\* logic raised an exception, if it did: before the spawn or after it.
scheduler_loop(raised) ==
  /\ sched.loops.tick > 0
  /\ LET matches == should_send_daily_reminder(clock.minute)
         spawns == /\ raised # "before_spawn"
                   /\ matches
                   /\ daily_task_free(sched)
         s1 == IF spawns THEN spawn(sched) ELSE sched
         did == IF raised = "before_spawn" THEN "raised"
                ELSE IF spawns THEN "spawned"
                ELSE IF matches THEN "busy"
                ELSE "no_match"
     IN sched' =
          IF ~sched.running
          THEN [sched EXCEPT !.loops.tick = @ - 1]
          ELSE IF raised = "no"
          THEN [s1 EXCEPT !.loops.tick = @ - 1, !.loops.sleep = @ + 1,
                          !.last_tick = did]
          ELSE [s1 EXCEPT !.loops.tick = @ - 1, !.loops.backoff = @ + 1,
                          !.last_tick = did]
  /\ UNCHANGED <<clock, reminders, todos, convVars, voiceVars, startVars>>

restart_loop_lost(loops) == [loops EXCEPT !.backoff = @ - 1]

\* self._scheduler_task = asyncio.create_task(self._scheduler_loop()); the
\* task that ran the handler ends.
restart_loop(loops) == [loops EXCEPT !.backoff = @ - 1, !.tick = @ + 1]

RECURSIVE restart_all(_)
restart_all(loops) ==
  IF loops.backoff = 0 THEN loops ELSE restart_all(restart_loop(loops))

\* The 30 s backoff of the exception handler is over within the minute in
\* which it began; only one backoff fits into the rest of a minute.
backoff_ends ==
  /\ sched.loops.backoff > 0
  /\ ~clock.backoff_ended
  /\ clock' = [clock EXCEPT !.backoff_ended = TRUE]
  /\ sched' = IF sched.running
              THEN [sched EXCEPT !.loops = restart_loop(@),
                                 !.restarted = TRUE]
              ELSE [sched EXCEPT !.loops.backoff = @ - 1]
  /\ UNCHANGED <<reminders, todos, convVars, voiceVars, startVars>>

\* A minute boundary: the 60 s sleep of a loop is over, and so is a 30 s
\* backoff that was still running.  After the window around the target the
\* clock moves to the same window of the next day, where reminders, the
\* number of delivery attempts of the day for each participant, starts anew.
minute_passes ==
  /\ sched.loops.tick = 0
  /\ IF clock.minute < WindowEnd
     THEN /\ clock' = [minute |-> clock.minute + 1, backoff_ended |-> FALSE]
          /\ UNCHANGED reminders
     ELSE /\ sched.broadcasts = {}
          /\ clock' = [minute |-> WindowStart, backoff_ended |-> FALSE]
          /\ reminders' = [u \in Users |-> 0]
  /\ LET l == restart_all(sched.loops)
     IN sched' = [sched EXCEPT
                    !.loops = [l EXCEPT !.tick = @ + l.sleep, !.sleep = 0],
                    !.restarted = @ \/ sched.loops.backoff > 0]
  /\ UNCHANGED <<todos, convVars, voiceVars, startVars>>

\* _send_daily_reminders up to its for loop; found is what
\* get_users_with_todos returned.
send_daily_reminders(b, found) ==
  /\ b \in sched.broadcasts
  /\ b.pc = "start"
  /\ LET s1 == [sched EXCEPT !.daily_sent_users = {}]
     IN sched' =
          IF found = << >>
          THEN finish(s1, b)
          ELSE [s1 EXCEPT !.broadcasts =
                  (@ \ {b}) \cup {[b EXCEPT !.pc = "loop", !.queue = found]}]
  /\ UNCHANGED <<clock, reminders, todos, convVars, voiceVars, startVars>>

after_delivery_aborting(b, user_id, outcome) ==
  IF outcome = "True"
  THEN [b EXCEPT !.queue = Tail(@), !.attempted = Append(@, user_id),
                 !.success_count = @ + 1]
  ELSE [b EXCEPT !.queue = << >>, !.attempted = Append(@, user_id),
                 !.error_count = @ + 1]

\* The counters of the broadcast after send_daily_todos_to_user returned
\* True or False or raised.
after_delivery(b, user_id, outcome) ==
  IF outcome = "True"
  THEN [b EXCEPT !.queue = Tail(@), !.attempted = Append(@, user_id),
                 !.success_count = @ + 1]
  ELSE [b EXCEPT !.queue = Tail(@), !.attempted = Append(@, user_id),
                 !.error_count = @ + 1]

\* reminders counts the delivery attempts of the day up to MaxReminders.
Counted(n) == IF n < MaxReminders THEN n + 1 ELSE n

\* One iteration of the for loop of _send_daily_reminders; the task ends
\* with the iteration that empties the enumeration.
send_daily_reminders_next(b, outcome) ==
  /\ b \in sched.broadcasts
  /\ b.pc = "loop"
  /\ LET user_id == Head(b.queue)
         skip == user_id \in sched.daily_sent_users
         b1 == IF skip THEN [b EXCEPT !.queue = Tail(@)]
               ELSE after_delivery(b, user_id, outcome)
         s1 == IF ~skip /\ outcome = "True"
               THEN [sched EXCEPT !.daily_sent_users = @ \cup {user_id}]
               ELSE sched
     IN IF ~sched.running
        THEN /\ sched' = finish(sched, b)
             /\ UNCHANGED reminders
        ELSE /\ sched' = IF b1.queue = << >>
                         THEN finish(s1, b)
                         ELSE [s1 EXCEPT !.broadcasts = (@ \ {b}) \cup {b1}]
             /\ reminders' = IF skip THEN reminders
                             ELSE [reminders EXCEPT ![user_id] = Counted(@)]
  /\ UNCHANGED <<clock, todos, convVars, voiceVars, startVars>>

Raises == {"no", "before_spawn", "after_spawn"}
Deliveries == {"True", "False", "raised"}
NextSched ==
  \/ start
  \/ stop
  \/ \E raised \in Raises : scheduler_loop(raised)
  \/ backoff_ends
  \/ minute_passes
  \/ \E b \in sched.broadcasts, found \in {user_ids, << >>} :
       send_daily_reminders(b, found)
  \/ \E b \in sched.broadcasts, outcome \in Deliveries :
       send_daily_reminders_next(b, outcome)

SpecSched == Init /\ [][NextSched]_vars

\* The event loop runs every task that is ready and every sleep returns.
SpecSchedFair ==
  /\ SpecSched
  /\ WF_vars(backoff_ends)
  /\ WF_vars(minute_passes)
  /\ WF_vars(\E raised \in Raises : scheduler_loop(raised))
  /\ WF_vars(\E b \in sched.broadcasts, outcome \in Deliveries :
               send_daily_reminders_next(b, outcome))
  /\ WF_vars(\E b \in sched.broadcasts, found \in {user_ids, << >>} :
               send_daily_reminders(b, found))

(***************************************************************************)
(* Claims.                                                                 *)
(***************************************************************************)
\* C1: a conversation run from a fresh start to the confirmation of the
\* review, one interaction at a time, with every answer a non-empty text
\* given in step order and no step but the optional one skipped, is
\* completed after exactly 6 accepted submissions, plus 1 when the optional
\* step was answered, and the record then has the field of every answered
\* step populated.
C1_CompletedRunPopulatesFields ==
  (hist.clean /\ hist.final = "review" /\ hist.skips \subseteq {"experiment"}) =>
    /\ retro.completed_at # NoTime
    /\ hist.accepted = 6 + (IF "experiment" \in hist.skips THEN 0 ELSE 1)
    /\ retro.energy_level # NoId
    /\ retro.mood # None
    /\ retro.mood_explanation # None
    /\ retro.wins_text # None
    /\ retro.learnings_text # None
    /\ retro.next_actions_text # None
    /\ retro.mits_text # None
    /\ ("experiment" \notin hist.skips => retro.experiment_text # None)

\* C2: a submission that arrives when there is no conversation state, when
\* the step is IDLE, or after expires_at has passed is rejected (the handler
\* returns False at once) and leaves the conversation state and the answer
\* record exactly as they were.
C2_InactiveSubmitRejected ==
  [][\A t \in Tasks :
       ( /\ task[t].pc \in {"idle", "done"}
         /\ task'[t] # task[t]
         /\ \/ ~conv.exists
            \/ conv.current_step = "idle"
            \/ (conv.expires_at # NoTime /\ now > conv.expires_at) )
       => ( /\ conv' = conv
            /\ retro' = retro
            /\ task'[t].pc = "done"
            /\ ~task'[t].ret
            /\ ~task'[t].wrote
            /\ ~task'[t].advanced )]_vars

\* C2, the case reached: a submission was refused as "no active conversation"
\* while the stored step is a live one whose deadline has passed and whose
\* record already holds an answer.
C2_Witness ==
  /\ task[1].pc = "done"
  /\ task[1].notice = "no_active"
  /\ conv.exists
  /\ conv.current_step = task[1].step
  /\ conv.current_step \notin {"idle", "completed"}
  /\ now > conv.expires_at
  /\ retro.mood_explanation # None

\* C3: an interaction that arrives on a live step (not IDLE, not COMPLETED)
\* with now >= expires_at resets the conversation state to IDLE, sends the
\* expiry notice and is refused.
C3_LazyExpiryResets ==
  [][\A t \in Tasks :
       ( /\ task[t].pc \in {"idle", "done"}
         /\ task'[t] # task[t]
         /\ conv.exists
         /\ conv.current_step \notin {"idle", "completed"}
         /\ conv.expires_at # NoTime
         /\ now >= conv.expires_at )
       => ( /\ conv'.current_step = "idle"
            /\ task'[t].pc = "done"
            /\ task'[t].notice = "expired"
            /\ ~task'[t].ret )]_vars

\* C4: of two interactions of the participant that overlap (both have read
\* the conversation state before either has written), at most one writes an
\* answer field and advances the step.
C4_OverlapCommitsOnce ==
  \A t, u \in Tasks :
    ( /\ t # u
      /\ task[t].overlap /\ task[u].overlap
      /\ task[t].step = task[u].step )
    => ~( /\ task[t].wrote /\ task[t].advanced
          /\ task[u].wrote /\ task[u].advanced )

\* C5: once a submission has finished, whether it succeeded or failed, the
\* answer field of its step was written if and only if the step was advanced.
C5_TransitionAtomic ==
  \A t \in Tasks :
    (task[t].pc = "done" /\ task[t].kind = "submit") =>
      (task[t].wrote <=> task[t].advanced)

\* C6: a skip request that arrives while the current step is a live step not
\* marked optional (ENERGY, MOOD, WINS, LEARNINGS, NEXT_ACTIONS, MITS, REVIEW)
\* writes no answer field and does not advance the step.
C6_SkipNonOptionalNoOp ==
  \A t \in Tasks :
    ( /\ task[t].kind = "skip"
      /\ task[t].step \in {"energy", "mood", "wins", "learnings", "next_actions",
                           "mits", "review"}
      /\ ~optional(task[t].step) )
    => (~task[t].wrote /\ ~task[t].advanced)

\* C7: every result with success = True carries a transcribed text that is
\* non-empty and at least MinLength characters long, whichever tier gave it.
C7_SuccessHasText ==
  (vp.pc = "done" /\ vp.result.success) =>
    /\ vp.result.transcribed_text # << >>
    /\ CharLen(vp.result.transcribed_text) >= MinLength

\* C8: when a run ends because its transcription calls all failed, each after
\* its retries, the result has success = False with the pipeline-error
\* message (not the internal-error one) and none of the run's temporary
\* files remains.
C8_TranscriptionFailureReported ==
  ( /\ vp.pc = "done"
    /\ vp.calls # << >>
    /\ \A i \in 1..Len(vp.calls) : vp.calls[i].text = Failed )
  => ( /\ ~vp.result.success
       /\ vp.result.error = "processing"
       /\ FilesOf(vp.run) = {} )

\* C9: the calls of a finished run follow the chain primary language,
\* secondary language (when distinct from the primary), auto-detection, in
\* that order; every call before the last failed or gave empty text; a run
\* whose last call failed or gave empty text has gone through the whole
\* chain and then fails; a run that succeeds returns non-empty text.
C9_FallbackChain ==
  (vp.pc = "done" /\ vp.calls # << >>) =>
    LET chain == IF vp.language # "en" THEN <<"primary", "fallback", "auto">>
                 ELSE <<"primary", "auto">>
        n == Len(vp.calls)
        unusable(c) == c.text = Failed \/ strip(c.text) = << >>
    IN /\ n <= Len(chain)
       /\ \A i \in 1..n : i <= Len(chain) => vp.calls[i].tier = chain[i]
       /\ \A i \in 1..(n - 1) : unusable(vp.calls[i])
       /\ unusable(vp.calls[n]) => (n = Len(chain) /\ ~vp.result.success)
       /\ vp.result.success => ~unusable(vp.calls[n])

\* C10: no run ever holds more than two temporary files, and once a run has
\* ended, on whatever path, none of its temporary files exists.
C10_NoResidualFiles ==
  \A r \in 1..MaxRuns :
    /\ Cardinality(FilesOf(r)) <= 2
    /\ (r < vp.run \/ (r = vp.run /\ vp.pc = "done")) => FilesOf(r) = {}

\* C11: a run with a progress tracker reports its phases in order, each
\* started phase followed by its completion: while it runs, the events are a
\* prefix of Download(start, complete), Validate(start, complete),
\* Convert(start, complete), Transcribe(start, complete), Complete, and a
\* successful run has reported exactly that sequence.
C11_ProgressSequence ==
  LET full == << [step |-> "downloading", percent |-> 0],
                 [step |-> "downloading", percent |-> 100],
                 [step |-> "validating", percent |-> 0],
                 [step |-> "validating", percent |-> 100],
                 [step |-> "converting", percent |-> 0],
                 [step |-> "converting", percent |-> 100],
                 [step |-> "transcribing", percent |-> 0],
                 [step |-> "transcribing", percent |-> 100],
                 [step |-> "completed", percent |-> 100] >>
      emitted == [i \in 1..Len(vp.events) |->
                    [step |-> vp.events[i].step, percent |-> vp.events[i].percent]]
  IN (vp.progress /\ vp.pc # "idle") =>
       /\ vp.raised = "none" =>
            /\ Len(vp.events) <= Len(full)
            /\ emitted = SubSeq(full, 1, Len(vp.events))
       /\ (vp.pc = "done" /\ vp.result.success) => emitted = full

\* C11, the case reached: a run with a tracker succeeded on its secondary
\* tier and reported nine events.
C11_Witness ==
  /\ vp.pc = "done"
  /\ vp.progress
  /\ vp.result.success
  /\ vp.result.fallback_used
  /\ Len(vp.events) = 9

\* C12: an upload that validate_audio_file rejects fails in the Validate
\* phase: the run ends with success = False and the pipeline-error message
\* carrying the validation failure, the Convert and Transcribe phases are
\* not started (no transcoder runs, no transcription call is made), and the
\* downloaded file is deleted.
C12_InvalidAudioFailsInValidate ==
  vp.validated = "invalid" =>
    /\ vp.pc = "done"
    /\ ~vp.result.success
    /\ vp.result.error = "processing"
    /\ vp.result.error_message = <<"Oshibka obrabotki:", "Nedeystvitelnyy audiofayl">>
    /\ vp.calls = << >>
    /\ \A p \in vp.transcoders : p.run # vp.run
    /\ \A i \in 1..Len(vp.events) :
         vp.events[i].step \notin {"converting", "transcribing", "completed"}
    /\ FilesOf(vp.run) = {}

\* C12, the case reached: a run with a tracker downloaded the file, found it
\* invalid and reported the failure.
C12_Witness ==
  /\ vp.pc = "done"
  /\ vp.validated = "invalid"
  /\ vp.progress
  /\ vp.raised = "VoiceProcessingError"
  /\ Len(vp.events) = 4
  /\ vp.events[4].step = "failed"

\* C13: every failure of a run (download, size limit, validation,
\* conversion, transcription, timeout) is caught: the run ends with a result
\* that has success = False and a non-empty error message, also when the
\* outbound updates of the progress message failed.
C13_FailureReturnsResult ==
  vp.raised # "none" =>
    /\ vp.pc = "done"
    /\ ~vp.result.success
    /\ vp.result.error \in {"timeout", "processing", "internal"}
    /\ vp.result.error_message # << >>
    /\ \A i \in 1..Len(vp.result.error_message) : vp.result.error_message[i] # ""

\* C13, the case reached: the transcription failed after its retries in a
\* run whose progress updates, the report of the failure included, could not
\* be delivered.
C13_Witness ==
  /\ vp.pc = "done"
  /\ vp.raised = "RetryError"
  /\ vp.progress
  /\ vp.events # << >>
  /\ \A i \in 1..Len(vp.events) : ~vp.events[i].sent
  /\ vp.events[Len(vp.events)].step = "failed"

\* C14: a run that has taken longer than ProcessingTimeout, none of its
\* external calls having exceeded its own timeout, ends with a failed
\* result that carries the timeout failure.
C14_OverallDeadline ==
  ( /\ vp.pc = "done"
    /\ elapsed > ProcessingTimeout
    /\ \A p \in vp.transcoders : p.run # vp.run )
  => ( /\ ~vp.result.success
       /\ vp.result.error = "timeout" )

C16_OneBroadcastInFlight ==
  Cardinality(sched.broadcasts) <= 1

\* A restarted loop has just run a matching tick while a broadcast was in
\* flight, and spawned nothing.
C16_Witness ==
  /\ sched.restarted
  /\ sched.last_tick = "busy"
  /\ should_send_daily_reminder(clock.minute)
  /\ \E b \in sched.broadcasts : b.current /\ b.pc = "loop"

\* C17: within one broadcast a delivery that fails for one participant (a
\* False result or an exception) is counted and does not abort the
\* broadcast: while the scheduler stays running, a step that takes a
\* participant from an enumeration with participants left keeps the task in
\* flight with exactly the remaining participants, and records the attempt
\* in one of the two counters.
C17_FailureIsolated ==
  [][\A b \in sched.broadcasts :
       (/\ b.pc = "loop"
        /\ Len(b.queue) > 1
        /\ Head(b.queue) \notin sched.daily_sent_users
        /\ sched'.running
        /\ b \notin sched'.broadcasts)
       => \E b1 \in sched'.broadcasts :
            /\ b1.pc = "loop"
            /\ b1.queue = Tail(b.queue)
            /\ b1.attempted = Append(b.attempted, Head(b.queue))
            /\ b1.success_count + b1.error_count
                 = b.success_count + b.error_count + 1
            /\ b1.success_count >= b.success_count
            /\ b1.error_count >= b.error_count]_vars

\* Two deliveries in a row have failed, both are counted, and the broadcast
\* is still in flight with the last participant to go.
C17_Witness ==
  \E b \in sched.broadcasts :
    /\ b.pc = "loop"
    /\ b.attempted = SubSeq(user_ids, 1, 2)
    /\ b.error_count = 2
    /\ b.queue = SubSeq(user_ids, 3, Len(user_ids))
    /\ sched.running

\* C18: if the tick logic raises an exception while the scheduler is running,
\* the loop is not lost: the backoff always ends, and then, unless the
\* service was stopped meanwhile, exactly one loop task is live and it is
\* back in the loop (about to tick or in its sleep); a running scheduler has
\* exactly one live loop task at all times; and a restarted loop whose tick
\* matches the target while no broadcast is in flight spawns the broadcast
\* as before.
C18_LoopRestarts ==
  /\ (sched.loops.backoff > 0)
       ~> (/\ sched.loops.backoff = 0
           /\ sched.running => LiveLoops(sched.loops) = 1)
  /\ [](sched.running => LiveLoops(sched.loops) = 1)
  /\ [][(/\ sched.restarted
         /\ sched.loops.tick > 0
         /\ sched'.loops.sleep > sched.loops.sleep
         /\ sched'.loops.tick < sched.loops.tick
         /\ should_send_daily_reminder(clock.minute)
         /\ daily_task_free(sched))
        => (/\ sched'.daily_task = "pending"
            /\ \E b \in sched'.broadcasts : b.current /\ b.pc = "start")]_vars

\* A loop that was restarted after an error has run a tick that spawned a
\* broadcast and is in its sleep; it is the only loop task.
C18_Witness ==
  /\ sched.running
  /\ sched.restarted
  /\ sched.loops = [NoLoops EXCEPT !.sleep = 1]
  /\ sched.last_tick = "spawned"
  /\ sched.daily_task = "pending"

C20_FreshStart ==
  [][\A late \in BOOLEAN :
       (/\ start_retro_conversation(late)
        /\ ~(conv.exists /\ is_active(conv))
        /\ ~(retro.exists /\ retro.completed_at # NoTime))
       => /\ conv'.exists
          /\ conv'.current_step = "energy"
          /\ retro'.exists
          /\ conv'.current_retro_id = retro'.id
          /\ retro.exists => retro' = retro
          /\ conv'.expires_at = now + TimeoutMinutes
          /\ reply'.prompt = "energy"]_vars

\* A start has just met a stale expired step and the day's answer record,
\* with an answer in it, and has begun anew at energy with a fresh deadline.
C20_Witness ==
  /\ reply.found = "expired"
  /\ reply.prompt = "energy"
  /\ conv.current_step = "energy"
  /\ conv.expires_at = now + TimeoutMinutes
  /\ retro.exists
  /\ retro.mood_explanation # None
  /\ conv.current_retro_id = retro.id

\* C21: stop from any active step resets the conversation state to idle and
\* leaves the answer record untouched (its completion timestamp stays unset
\* and every answer field keeps its value); stop when no conversation is
\* active changes nothing.
C21_StopResetsOnly ==
  [][stop_conversation
     => /\ retro' = retro
        /\ IF conv.exists /\ is_active(conv)
           THEN /\ conv'.exists
                /\ conv'.current_step = "idle"
                /\ conv'.current_retro_id = NoId
                /\ conv'.expires_at = NoTime
           ELSE conv' = conv]_vars

\* A stop has just reset a conversation that had answers recorded; the
\* answer record still holds them and is not completed.
C21_Witness ==
  /\ reply.found = "stopped"
  /\ conv.exists
  /\ conv.current_step = "idle"
  /\ retro.exists
  /\ retro.mood_explanation # None
  /\ retro.completed_at = NoTime

\* C22: when the review is confirmed, one committed transition sets the
\* completion timestamp of the answer record and resets the conversation
\* state to idle with current_retro_id and expires_at cleared; completed is
\* never a persisted value of current_step.
C22_CompletionAtomic ==
  /\ [][(/\ complete_retro_callback
         /\ conv.exists
         /\ conv.current_step = "review")
        => /\ retro'.exists
           /\ retro'.completed_at = now
           /\ conv'.current_step = "idle"
           /\ conv'.current_retro_id = NoId
           /\ conv'.expires_at = NoTime]_vars
  /\ [](conv.current_step # "completed")

\* C23: completing a conversation derives and upserts a follow-up record:
\* once an answer record whose planned-actions sections (next actions or
\* MITs) are non-empty is completed, the participant has a row in the todos
\* table, so that the next reminder broadcast enumerates the participant.
C23_CompletionCreatesTodo ==
  (/\ retro.exists
   /\ retro.completed_at # NoTime
   /\ (retro.next_actions_text # None \/ retro.mits_text # None))
  => Participant \in todos

C25_ProgressSurvivesRestart ==
  /\ (/\ hist.clean
      /\ hist.restarted_at # NoRestart
      /\ hist.final = "none"
      /\ \A t \in Tasks : ~InFlight(t))
     => /\ conv.exists
        /\ retro.exists
        /\ conv.current_retro_id = retro.id
        /\ hist.restarted_at <= hist.accepted + Cardinality(hist.skips)
        /\ conv.current_step
             = step_order[hist.accepted + Cardinality(hist.skips) + 1]
  /\ \A t \in Tasks :
       (hist.clean /\ hist.restarted_at # NoRestart /\ InFlight(t))
       => /\ task[t].step = conv.current_step
          /\ task[t].retro_id = retro.id
          /\ task[t].step
               = step_order[hist.accepted + Cardinality(hist.skips) + 1]

\* The process was restarted after the first accepted answer, and the
\* second answer was then accepted at mood and advanced the state to wins.
C25_Witness ==
  /\ hist.clean
  /\ hist.restarted_at = 1
  /\ hist.accepted = 2
  /\ \A t \in Tasks : ~InFlight(t)
  /\ conv.exists
  /\ conv.current_step = "wins"
  /\ conv.current_retro_id = retro.id
  /\ retro.mood # None

\* C26: every committed change of current_step is one of: a state that is
\* not active (absent, IDLE or expired) goes to ENERGY; a step S of ENERGY ..
\* EXPERIMENT goes to its successor in the order; or any step goes to IDLE.
\* No step is skipped or revisited and IDLE is left only to ENERGY, under
\* any interleaving of interactions.
C26_StepTransitions ==
  [][(conv'.current_step # conv.current_step) =>
       \/ /\ conv'.current_step = "energy"
          /\ \/ ~conv.exists
             \/ conv.current_step = "idle"
             \/ (conv.expires_at # NoTime /\ now >= conv.expires_at)
       \/ /\ conv.current_step \in step_questions
          /\ conv'.current_step = get_next_step(conv.current_step)
       \/ conv'.current_step = "idle"]_vars

\* C27: the completion timestamp of an answer record is set only by the
\* confirmation of the review step: whenever completed_at changes, the
\* conversation state was at REVIEW, and a step in which the state was IDLE
\* or at a question step before REVIEW and completed_at changes leaves
\* neither the answer record nor the conversation state changed, i.e. does
\* not happen.
C27_CompleteOnlyAtReview ==
  [][(retro'.completed_at # retro.completed_at) =>
       (conv.exists /\ conv.current_step = "review")]_vars

\* C28: a conversation state is active if and only if current_step is
\* neither IDLE nor COMPLETED and now < expires_at, whatever current_step,
\* expires_at (unset included) and now (now = expires_at included) are.
C28_ActiveIff ==
  conv.exists =>
    (is_active(conv) <=>
       /\ conv.current_step # "idle"
       /\ conv.current_step # "completed"
       /\ conv.expires_at # NoTime
       /\ now < conv.expires_at)

\* C29: an input that is empty after cleaning (empty or whitespace-only
\* text, or a voice transcript that is empty or whitespace-only) is never
\* accepted: a submission is taken up for processing only with an input that
\* is not empty after cleaning, and a submission that is refused for another
\* reason than an inactive or expired conversation or a failed voice run
\* leaves the step and the answer record unchanged and is answered with the
\* "empty answer" prompt.
C29_EmptyInputRejected ==
  [][\A t \in Tasks :
       ( /\ task[t].pc \in {"idle", "done"}
         /\ task'[t] # task[t]
         /\ task'[t].kind = "submit" )
       => /\ (task'[t].pc = "process") => (strip(task'[t].input) # << >>)
          /\ ( /\ task'[t].pc = "done"
               /\ task'[t].notice \notin {"no_active", "expired", "voice_failed"} )
             => /\ task'[t].notice = "empty"
                /\ conv'.current_step = conv.current_step
                /\ retro' = retro]_vars

\* C30: an accepted submission at step S writes only the answer fields of
\* S: in a conversation run one interaction at a time, when the submission
\* at S is saved, every field written for a step before S keeps its value.
C30_EarlierFieldsKept ==
  [][\A t \in Tasks :
       ( /\ hist.clean
         /\ task[t].pc = "process"
         /\ task'[t].wrote )
       => \A i \in 1..Len(step_order) :
            (i < IndexOf(step_order, task[t].step))
            => \A f \in step_fields(step_order[i]) : retro'[f] = retro[f]]_vars

\* C31: a skip at the optional EXPERIMENT step behaves as a submission with
\* an empty value: in a conversation run one interaction at a time, when the
\* skip has advanced the step, current_step is REVIEW and the experiment
\* field of the answer record is still empty (no placeholder text stored).
C31_SkipStoresNothing ==
  [][\A t \in Tasks :
       ( /\ hist.clean
         /\ task[t].kind = "skip"
         /\ task[t].step = "experiment"
         /\ task[t].pc = "advance"
         /\ task'[t].pc = "done" )
       => /\ conv'.current_step = "review"
          /\ retro'.experiment_text \in {None, << >>}]_vars

\* C32: while current_step = REVIEW, and more generally at a step that has
\* no configured field mapping, a text or voice submission of an active
\* conversation changes neither the conversation state nor the answer
\* record, from the moment it is taken up to the moment its handler returns.
C32_UnmappedStepUnchanged ==
  [][\A t \in Tasks :
       ( /\ task'[t] # task[t]
         /\ task'[t].kind = "submit"
         /\ (task'[t].step = "review" \/ task'[t].step \notin step_questions)
         /\ task'[t].notice # "expired" )
       => (conv' = conv /\ retro' = retro)]_vars

\* A voice submission and a text submission were each taken up at REVIEW
\* and returned: the state is still at REVIEW.
C32_Witness ==
  /\ conv.exists
  /\ conv.current_step = "review"
  /\ task[1].pc = "done"
  /\ task[1].kind = "submit"
  /\ task[1].step = "review"
  /\ task[1].voice
  /\ task[1].ret
  /\ retro.mits_text # None

\* C33: after any interleaving of start interactions of the participant,
\* two concurrent starts on the same day included, there is at most one
\* conversation state of the participant and at most one answer record of
\* the participant for the day.
C33_OneStateOneRecord ==
  /\ rows.states <= 1
  /\ rows.retros <= 1

\* C34: the expired-state cleanup deletes exactly the conversation states
\* whose expires_at is set and earlier than now: run in any reachable state,
\* it deletes the row if and only if expires_at is set and < now, it leaves
\* an active conversation and a row reset to IDLE (expires_at unset) as they
\* are, and no row with expires_at < now is left after it.
C34_CleanupExact ==
  LET after == delete_expired(conv) IN
  /\ (conv.exists /\ ~after.exists)
       <=> (conv.exists /\ conv.expires_at # NoTime /\ conv.expires_at < now)
  /\ after.exists => after = conv
  /\ (conv.exists /\ is_active(conv)) => after = conv
  /\ (conv.exists /\ conv.expires_at = NoTime) => after = conv
  /\ ~(after.exists /\ after.expires_at # NoTime /\ after.expires_at < now)

\* The cleanup has deleted the row of a conversation that was started and
\* left untouched past its deadline.
C34_Witness ==
  /\ ~conv.exists
  /\ retro.exists
  /\ now > TimeoutMinutes
  /\ delete_expired(conv) = conv

\* C35: start_step, complete_step and fail_step always deliver an update to
\* the callback, whatever the time since the last delivered update; an
\* update_progress without force_update for a non-terminal phase that is
\* issued less than throttle_seconds after the last delivered update only
\* replaces current_state and delivers nothing; hence two such updates that
\* are delivered with no always-delivered update between them are at least
\* throttle_seconds apart.
C35_Throttling ==
  [][(tracker'.seq # tracker.seq) =>
       /\ (tracker'.last.kind \in {"start_step", "complete_step", "fail_step"})
            => /\ tracker'.last.delivered
               /\ tracker'.last_update_time = tracker.now
       /\ ( /\ tracker'.last.kind = "update_progress"
            /\ tracker'.last.step \notin {"completed", "failed"}
            /\ tracker.last_update_time # NoTime
            /\ tracker.now - tracker.last_update_time < throttle_seconds )
          => /\ ~tracker'.last.delivered
             /\ tracker'.current_state = tracker'.last.step
             /\ tracker'.last_update_time = tracker.last_update_time
       /\ ( /\ tracker'.last.kind = "update_progress"
            /\ tracker'.last.step \notin {"completed", "failed"}
            /\ tracker'.last.delivered
            /\ tracker.prev_plain # NoTime )
          => tracker.now - tracker.prev_plain >= throttle_seconds]_vars

\* A throttled update was dropped one second after a delivered one, and the
\* state it carried is the current state.
C35_Witness ==
  /\ tracker.last.kind = "update_progress"
  /\ tracker.last.step = "converting"
  /\ ~tracker.last.delivered
  /\ tracker.current_state = "converting"
  /\ tracker.last_update_time # NoTime
  /\ tracker.now = tracker.last_update_time + 1
  /\ tracker.prev_plain # NoTime

\* C36: timeouts cancel actively: once a run of the pipeline has returned,
\* no transcoder subprocess of that run is still running (and so none can
\* re-create the run's output file after the temporary files were released).
C36_TranscoderTerminated ==
  (vp.pc = "done") => (\A p \in vp.transcoders : p.run # vp.run)

\* C37: in every reachable state, under any interleaving of start, submit,
\* stop, complete and expiry of the participant, a conversation state whose
\* current_step is neither IDLE nor COMPLETED has a current_retro_id and an
\* expires_at that are set.
C37_LiveStepHasRecordAndDeadline ==
  (conv.exists /\ conv.current_step \notin {"idle", "completed"})
  => (conv.current_retro_id # NoId /\ conv.expires_at # NoTime)

\* C38: an accepted submission changes only current_step of the
\* conversation state (expires_at and current_retro_id are left as they
\* are); the deadline is set only by a start, to the time of the start plus
\* TimeoutMinutes, and otherwise only cleared; so a conversation started at
\* time t is never active later than t + TimeoutMinutes: an active
\* conversation has a deadline and the clock has not passed it.
C38_WindowNotExtended ==
  /\ [][/\ \A t \in Tasks :
             (task[t].pc = "advance" /\ task'[t].pc = "done")
             => conv' = [conv EXCEPT !.current_step = conv'.current_step]
        /\ (conv'.expires_at # conv.expires_at)
             => \/ conv'.expires_at = NoTime
                \/ /\ conv'.current_step = "energy"
                   /\ conv'.expires_at \in {now + TimeoutMinutes,
                                            now' + TimeoutMinutes}]_vars
  /\ []((conv.exists /\ is_active(conv))
          => (conv.expires_at # NoTime /\ now <= conv.expires_at))

\* C39: a stop followed by a start on the same day reuses the same answer
\* record: the start creates no second record and leaves every stored field
\* as it is, the new conversation refers to that record and begins at
\* ENERGY; and an answer field changes only when a submission at a step the
\* field belongs to is saved, never by a stop or a start.
C39_StopStartReusesRecord ==
  [][/\ ( /\ reply.found = "stopped"
          /\ reply'.prompt = "energy"
          /\ reply'.found = "idle" )
        => /\ retro.exists
           /\ retro' = retro
           /\ conv'.current_step = "energy"
           /\ conv'.current_retro_id = retro.id
     /\ \A s \in step_questions : \A f \in step_fields(s) :
          (retro.exists /\ retro'[f] # retro[f])
          => \E t \in Tasks : /\ task[t].pc = "process"
                              /\ task'[t].pc = "confirm"
                              /\ f \in step_fields(task[t].step)]_vars

\* A conversation stopped at WINS, before any time had passed, was started
\* again: it is at ENERGY on the same record, which still holds the answers
\* given before the stop.
C39_Witness ==
  /\ reply.prompt = "energy"
  /\ reply.found = "idle"
  /\ conv.exists
  /\ conv.current_step = "energy"
  /\ conv.current_retro_id = retro.id
  /\ retro.mood # None
  /\ retro.wins_text = None
  /\ retro.completed_at = NoTime
  /\ now = 0
  /\ hist.accepted = 0
  /\ \A t \in Tasks : ~InFlight(t)

\* C40: after SchedulerService.stop() has returned, neither a scheduler loop
\* task nor a broadcast task is running and no further reminder is sent,
\* also when stop() was called while a broadcast was in progress or during
\* the error backoff of the loop; and there is never more than one loop
\* task, a second start() while running creating none.
C40_StopStopsEverything ==
  /\ []((sched.lifecycle = "stopped")
          => /\ ~sched.running
             /\ LiveLoops(sched.loops) = 0
             /\ sched.broadcasts = {})
  /\ [][(sched.lifecycle = "stopped")
          => \A u \in Users : reminders'[u] <= reminders[u]]_vars
  /\ [](LiveLoops(sched.loops) <= 1)

\* stop() was called while a broadcast that had reminded the first
\* participant only was in progress and the loop was in its error backoff.
C40_Witness ==
  /\ sched.lifecycle = "stopped"
  /\ sched.stopped_in.broadcast
  /\ sched.stopped_in.backoff
  /\ reminders[1] > 0
  /\ reminders[3] = 0
  /\ sched.broadcasts = {}
  /\ LiveLoops(sched.loops) = 0

====
